---- MODULE Spec2Model ----
(***************************************************************************)
(* Model of sonos_discovery: the Discover session of src/src/lib.rs        *)
(* (construction, start, the receive workers, Drop) and, apart from it,    *)
(* the start of the command-line snapshot src/src/main.rs.                 *)
(*                                                                         *)
(* Time is counted in ticks of 250 ms.  The coordinator's own steps take   *)
(* no time; time passes only while it is blocked in recv_timeout.          *)
(***************************************************************************)
EXTENDS Integers, Sequences, FiniteSets, TLC

\* ---------------------------------------------------------------- bounds
MaxCount     == 1   \* largest explicit device_count argument
MaxEvents    == 2   \* datagrams that arrive plus recvfrom calls that fail, in one behaviour
MaxCalls     == 2   \* start calls on the session
MaxNew       == 2   \* constructor calls
NumIps       == 2   \* distinct sender IP addresses
MaxCliCount  == 2   \* largest explicit device_count argument of the command-line start
MaxCliEvents == 3   \* datagrams that arrive plus recvfrom calls that fail, command-line run
MaxCliTicks  == 8   \* ticks followed while the command-line start is blocked in recvfrom

\* ------------------------------------------------------ program constants
TicksPerSec     == 4            \* Duration::as_secs: 4 ticks of 250 ms
RecvTimeout     == 2            \* Duration::new(0, 500_000_000) in ticks
DefaultTimeout  == 5            \* timeout.unwrap_or(5)
\* std::u32::MAX as usize is 4294967295, beyond the checker's integers; the
\* largest representable value stands for it (devices.len() stays far below both)
U32Max          == 2147483647
RecvBufSize     == 1024         \* socket.recvfrom(1024, 0)
ReplacementChar == 65533        \* U+FFFD, written by from_utf8_lossy
SsdpPort        == 1900

None == "None"

DefaultAddr == "239.255.255.250:1900"
AddrStrings == {DefaultAddr, "not-an-address"}

\* "Sonos" as bytes / chars
Sonos == <<83, 111, 110, 111, 115>>

\* senders: every device answers from the ssdp port
Ips   == 1..NumIps
SocketAddrs == [ip : Ips, port : {SsdpPort}]

\* payloads a responder may send: empty, "\xFFSonos\n", "sonos"
Qualifying == <<255, 83, 111, 110, 111, 115, 10>>
Lowercase  == <<115, 111, 110, 111, 115>>
Bodies == {<<>>, Qualifying, Lowercase}

\* the datagrams that arrive: every sender answers with the signature; ip 1
\* also sends an empty datagram, the last ip also one without the signature
Datagrams ==
    {d \in [addr : SocketAddrs, data : Bodies] :
        \/ d.data = Qualifying
        \/ d.data = <<>> /\ d.addr = [ip |-> 1, port |-> SsdpPort]
        \/ d.data = Lowercase /\ d.addr = [ip |-> NumIps, port |-> SsdpPort]}

VARIABLES
    session,        \* "none" | "parsed" | "socket" | "built" | "failed" | "closed"
    newErr,         \* error returned by the last failed constructor call
    socketsCreated, \* sockets created by the constructor call in progress / last
    nNew,           \* constructor calls so far
    pc,             \* coordinator: "idle" | "send" | "check" | "wait"
    timeout,        \* local `timeout` of start (seconds)
    device_count,   \* local `device_count` of start
    elapsed,        \* time.elapsed() in ticks
    waited,         \* ticks spent in the current recv_timeout
    devices,        \* local `devices` of start
    ret,            \* value returned by the last start call
    bound,          \* the socket has a local port (given by its first successful sendto)
    sockbuf,        \* datagrams queued on the socket
    worker,         \* the receive thread of the current attempt: "none" | "recv" | "sent" | "failed"
    stale,          \* threads of abandoned attempts still blocked in recvfrom
    chan,           \* the mpsc channel of the current attempt
    nEvents,        \* datagrams arrived and recvfrom calls failed so far
    calls,          \* start calls so far
    sends,          \* sendto calls made by the current start call
    got,            \* ips whose signed datagram recv_timeout handed to the current start call
    arrived,        \* ips the call before returned whose signed datagram reached the
                    \* socket during the current start call
    event,          \* what the coordinator's last step met
    noise,          \* ips not in `devices` whose empty or unsigned datagram recv_timeout
                    \* handed to the start call (kept for the call the reference follows)
    ref,            \* the reference collector (one timed receive per attempt, no
                    \* thread left behind) run on the same call, datagrams and clock
    \* the command-line snapshot, src/src/main.rs
    cliPc,          \* "new" | "send" | "check" | "recvfrom" | "done" | "panicked"
    cliSent,        \* the sendto of send_search succeeded
    cliTimeout,     \* local `timeout` of start
    cliDeviceCount, \* local `device_count` of start
    count,          \* local `count` of start
    cliElapsed,     \* time.elapsed() in ticks
    cliBuf,         \* datagrams queued on the socket
    cliGot,         \* ips whose signed datagram recvfrom returned
    cliEvents       \* datagrams arrived and recvfrom calls failed so far

vars == <<session, newErr, socketsCreated, nNew, bound, pc, timeout, device_count,
          elapsed, waited, devices, ret, sockbuf, worker, stale, chan, nEvents, calls, sends, got, arrived, event, noise, ref,
          cliPc, cliSent, cliTimeout, cliDeviceCount, count, cliElapsed, cliBuf, cliGot, cliEvents>>

ctorVars  == <<session, newErr, socketsCreated, nNew>>
callVars  == <<pc, timeout, device_count, elapsed, waited, devices, ret>>
histVars  == <<calls, sends, got, arrived, event>>
allHist   == <<histVars, noise, ref>>
libVars   == <<ctorVars, callVars, allHist, bound, sockbuf, worker, stale, chan, nEvents>>
cliVars   == <<cliPc, cliSent, cliTimeout, cliDeviceCount, count, cliElapsed, cliBuf,
               cliGot, cliEvents>>

\* a datagram body that carries the five bytes 'S' 'o' 'n' 'o' 's' in a row
\* (used only by the history variables got and arrived)
Signed(data) ==
    \E i \in 1..Len(data) :
        /\ i + 4 <= Len(data)
        /\ data[i] = 83 /\ data[i + 1] = 111 /\ data[i + 2] = 110
        /\ data[i + 3] = 111 /\ data[i + 4] = 115

\* ------------------------------------------------------- pure functions
\* the elements of a Vec
InSet(v) == {v[i] : i \in 1..Len(v)}

Min(a, b) == IF a < b THEN a ELSE b

\* SocketAddr::from_str: only "ip:port" text parses
SocketAddrFromStr(s) == IF s = DefaultAddr THEN "Ok" ELSE "Err"

\* Option: None is <<>>, Some(v) is <<v>>
Some(v) == <<v>>

\* Option::unwrap_or
UnwrapOr(opt, default) == IF opt = <<>> THEN default ELSE opt[1]

\* Duration::as_secs: whole seconds, fraction dropped
AsSecs(ticks) == ticks \div TicksPerSec

\* recvfrom(1024, 0): at most 1024 bytes of the datagram
RecvFrom(d) == [d EXCEPT !.data = SubSeq(d.data, 1, Min(Len(d.data), RecvBufSize))]

\* String::from_utf8_lossy: ASCII kept, invalid bytes replaced by U+FFFD
FromUtf8Lossy(bytes) ==
    [i \in 1..Len(bytes) |-> IF bytes[i] < 128 THEN bytes[i] ELSE ReplacementChar]

\* str::contains as a case-insensitive search would compute it
ToLower(c) == IF c >= 65 /\ c <= 90 THEN c + 32 ELSE c
ContainsIgnoreCase(s, pat) ==
    \E i \in 0..(Len(s) - Len(pat)) :
        \A j \in 1..Len(pat) : ToLower(s[i + j]) = ToLower(pat[j])

\* str::contains
Contains(s, pat) ==
    \E i \in 0..(Len(s) - Len(pat)) : SubSeq(s, i + 1, i + Len(pat)) = pat

\* the dedup test left out
VecContainsNever(v, x) == FALSE

\* Vec::contains
VecContains(v, x) == \E i \in 1..Len(v) : v[i] = x

\* devices kept from the call before instead of a new Vec
VecNewCarry == ret.val

\* let mut devices = Vec::new()
VecNew == <<>>

\* the while condition with <= in the count test
LoopCondCountOffByOne == AsSecs(elapsed) < timeout /\ Len(devices) <= device_count

\* the while condition with <= in the deadline test
LoopCondLateDeadline == AsSecs(elapsed) <= timeout /\ Len(devices) < device_count

\* the while condition without the count test
LoopCondNoCount == AsSecs(elapsed) < timeout

\* the while condition of start
LoopCond == AsSecs(elapsed) < timeout /\ Len(devices) < device_count

\* the key the dedup test compares: _addr.ip()
DedupKey(a) == a.ip

\* the loop body with insert(0, ..) in place of push
ProcessInsertFront(devs, msg) ==
    IF msg.data = <<>> \/ VecContains(devs, DedupKey(msg.addr))
    THEN devs
    ELSE IF Contains(FromUtf8Lossy(msg.data), Sonos)
         THEN <<DedupKey(msg.addr)>> \o devs
         ELSE devs

\* the loop body with the sender of an empty datagram entered in the list
\* before the `continue`
ProcessEmptyKept(devs, msg) ==
    IF VecContains(devs, DedupKey(msg.addr))
    THEN devs
    ELSE IF msg.data = <<>> \/ Contains(FromUtf8Lossy(msg.data), Sonos)
         THEN Append(devs, DedupKey(msg.addr))
         ELSE devs

\* the loop body after a successful recv_timeout: the new value of devices
Process(devs, msg) ==
    IF msg.data = <<>> \/ VecContains(devs, DedupKey(msg.addr))
    THEN devs
    ELSE IF Contains(FromUtf8Lossy(msg.data), Sonos)
         THEN Append(devs, DedupKey(msg.addr))
         ELSE devs

\* which branch of the loop body a received message takes (for `event`)
Outcome(devs, msg) ==
    IF msg.data = <<>> THEN "empty"
    ELSE IF VecContains(devs, DedupKey(msg.addr)) THEN "dup"
    ELSE IF Contains(FromUtf8Lossy(msg.data), Sonos) THEN "added"
    ELSE "nosig"

\* recv_timeout sees a dropped sender and an empty channel
Disconnected ==
    pc = "wait" /\ chan = <<>> /\ worker = "failed"

\* The coordinator's steps take no time: while one is due, no time passes and
\* nothing else happens (an event at that instant is the same event just
\* before or just after the step).
Urgent == pc \in {"send", "check"} \/ (pc = "wait" /\ (chan # <<>> \/ Disconnected))

\* A thread blocked in recvfrom is woken as soon as a datagram is queued.
Delivering == sockbuf # <<>> /\ (stale > 0 \/ (pc = "wait" /\ worker = "recv"))

\* nothing is due at this instant: time may pass, the outside world may act
Quiet == ~Urgent /\ ~Delivering

\* ------------------------------------------------- reference collector
\* The collector of spec section 4.3 with a receive that times out by itself:
\* every datagram that reaches its socket while its loop runs is received by
\* the attempt then waiting.  Its own steps take no time.
RefIdle == [valid |-> TRUE, active |-> FALSE, waited |-> 0, devs |-> <<>>]

\* the comparison has ended
RefOff == [valid |-> FALSE, active |-> FALSE, waited |-> 0, devs |-> <<>>]

\* its while condition at time e
RefCond(e, devs) == AsSecs(e) < timeout /\ Len(devs) < device_count

\* its call begins (the query was sent; its socket, like start's, is empty)
RefStart(r) ==
    IF ~r.valid THEN r
    ELSE [valid |-> TRUE, active |-> RefCond(0, <<>>), waited |-> 0, devs |-> <<>>]

\* a datagram reaches its socket at time e
RefArrive(r, d, e) ==
    IF ~r.valid \/ ~r.active THEN r
    ELSE LET ds == Process(r.devs, RecvFrom(d))
         IN  [r EXCEPT !.devs = ds, !.waited = 0, !.active = RefCond(e, ds)]

\* 250 ms pass; e is the time reached
RefTick(r, e) ==
    IF ~r.valid \/ ~r.active THEN r
    ELSE IF r.waited + 1 = RecvTimeout
         THEN [r EXCEPT !.waited = 0, !.active = RefCond(e, r.devs)]
         ELSE [r EXCEPT !.waited = r.waited + 1]

\* the receive of its current attempt fails at time e
RefRecvErr(r, e) ==
    IF ~r.valid \/ ~r.active THEN r
    ELSE [r EXCEPT !.waited = 0, !.active = RefCond(e, r.devs)]

\* start returns: the comparison is made and ends (it follows the first call
\* of a session that reaches the loop)
RefReturn(r) == RefOff

Init ==
    /\ session = "none" /\ newErr = None /\ socketsCreated = 0 /\ nNew = 0
    /\ pc = "idle" /\ timeout = 0 /\ device_count = 0
    /\ elapsed = 0 /\ waited = 0
    /\ devices = <<>>
    /\ ret = [kind |-> None, val |-> <<>>]
    /\ bound = FALSE /\ sockbuf = <<>> /\ worker = "none" /\ stale = 0 /\ chan = <<>>
    /\ nEvents = 0
    /\ calls = 0 /\ sends = 0 /\ got = {} /\ arrived = {} /\ event = "none"
    /\ noise = {} /\ ref = RefIdle
    /\ cliPc = "new" /\ cliSent = FALSE /\ cliTimeout = 0 /\ cliDeviceCount = 0
    /\ count = 0 /\ cliElapsed = 0 /\ cliBuf = <<>> /\ cliGot = {} /\ cliEvents = 0

\* ---------------------------------------------------------- construction
\* Discover::new: parse the address text, then with_address
New(s) ==
    /\ session \in {"none", "failed"}
    /\ nNew < MaxNew
    /\ nNew' = nNew + 1
    /\ socketsCreated' = 0
    /\ IF SocketAddrFromStr(s) = "Ok"
       THEN session' = "parsed" /\ newErr' = None
       ELSE session' = "failed" /\ newErr' = "InvalidData"
    /\ UNCHANGED <<cliVars, bound, callVars, allHist, sockbuf, worker, stale, chan, nEvents>>

\* create_socket: Socket::new(...)?
SocketNewOk ==
    /\ session = "parsed"
    /\ session' = "socket"
    /\ socketsCreated' = socketsCreated + 1
    /\ UNCHANGED <<cliVars, bound, newErr, nNew, callVars, allHist, sockbuf, worker, stale, chan, nEvents>>

SocketNewErr ==
    /\ session = "parsed"
    /\ session' = "failed"
    /\ newErr' = "SocketNew"
    /\ UNCHANGED <<cliVars, bound, socketsCreated, nNew, callVars, allHist, sockbuf, worker, stale, chan, nEvents>>

\* a failed setsockopt ignored (let _ = ...): the session is returned anyway
SetsockoptErrIgnored ==
    /\ session = "socket"
    /\ session' = "built"
    /\ newErr' = "Setsockopt"
    /\ UNCHANGED <<cliVars, bound, socketsCreated, nNew, callVars, allHist, sockbuf, worker, stale, chan, nEvents>>

\* create_socket: socket.setsockopt(IPPROTO_IP, IP_MULTICAST_TTL, 4)?, then Ok(Discover{..})
SetsockoptOk ==
    /\ session = "socket"
    /\ session' = "built"
    /\ UNCHANGED <<cliVars, bound, newErr, socketsCreated, nNew, callVars, allHist, sockbuf, worker, stale, chan, nEvents>>

SetsockoptErr ==
    /\ session = "socket"
    /\ session' = "failed"
    /\ newErr' = "Setsockopt"
    /\ UNCHANGED <<cliVars, bound, socketsCreated, nNew, callVars, allHist, sockbuf, worker, stale, chan, nEvents>>

\* impl Drop for Discover: let _ = self.socket.close()
Drop ==
    /\ session = "built"
    /\ pc = "idle"
    /\ Quiet
    /\ session' = "closed"
    /\ UNCHANGED <<cliVars, bound, newErr, socketsCreated, nNew, callVars, allHist, sockbuf, worker, stale, chan, nEvents>>

\* ---------------------------------------------------------- environment
\* a datagram reaches the socket (which has a port once a query has left it)
Arrive(d) ==
    /\ session = "built"
    /\ bound
    /\ Quiet
    /\ nEvents < MaxEvents
    /\ nEvents' = nEvents + 1
    /\ sockbuf' = Append(sockbuf, d)
    /\ arrived' = IF pc # "idle" /\ Signed(d.data)
                  THEN arrived \cup ({d.addr.ip} \cap InSet(ret.val))
                  ELSE arrived
    /\ ref' = RefArrive(ref, d, elapsed)
    /\ UNCHANGED <<cliVars, noise, bound, ctorVars, callVars, calls, sends, got, event, worker, stale, chan>>

\* time passes while the coordinator is blocked in recv_timeout
Tick ==
    /\ pc = "wait"
    /\ Quiet
    /\ waited < RecvTimeout
    /\ waited' = waited + 1
    /\ elapsed' = elapsed + 1
    /\ ref' = RefTick(ref, elapsed + 1)
    /\ UNCHANGED <<cliVars, noise, bound, ctorVars, pc, timeout, device_count, devices, ret, histVars,
                   sockbuf, worker, stale, chan, nEvents>>

\* ---------------------------------------------------------------- start
\* the arguments of start: a timeout of 0 s or 1 s; no count, or one up to MaxCount
TimeoutArgs == {Some(0), Some(1)}
CountArgs   == {<<>>} \cup {Some(k) : k \in 0..MaxCount}

\* start callable on a session that was torn down
StartOnClosed(t, k) ==
    /\ session \in {"built", "closed"}
    /\ pc = "idle"
    /\ Quiet
    /\ calls < MaxCalls
    /\ calls' = calls + 1
    /\ timeout' = UnwrapOr(t, DefaultTimeout)
    /\ device_count' = UnwrapOr(k, U32Max)
    /\ elapsed' = 0
    /\ pc' = "send"
    /\ sends' = 0 /\ got' = {} /\ arrived' = {} /\ event' = "none"
    /\ UNCHANGED <<cliVars, noise, ref, bound, ctorVars, waited, devices, ret, sockbuf, worker, stale, chan, nEvents>>

\* start, lines 106-110
Start(t, k) ==
    /\ session = "built"
    /\ pc = "idle"
    /\ Quiet
    /\ calls < MaxCalls
    /\ calls' = calls + 1
    /\ timeout' = UnwrapOr(t, DefaultTimeout)
    /\ device_count' = UnwrapOr(k, U32Max)
    /\ elapsed' = 0
    /\ pc' = "send"
    /\ sends' = 0 /\ got' = {} /\ arrived' = {} /\ event' = "none"
    /\ UNCHANGED <<cliVars, noise, ref, bound, ctorVars, waited, devices, ret, sockbuf, worker, stale, chan, nEvents>>

\* self.send_search()? succeeded; let mut devices = Vec::new()
SendSearchOk ==
    /\ pc = "send"
    /\ sends' = sends + 1
    /\ bound' = TRUE
    /\ devices' = VecNew
    /\ pc' = "check"
    /\ event' = "sent"
    /\ ref' = RefStart(ref)
    /\ UNCHANGED <<cliVars, noise, ctorVars, timeout, device_count, elapsed, waited, ret, sockbuf,
                   worker, stale, chan, nEvents, calls, got, arrived>>

\* a failed send_search ignored (let _ = ...): the call goes on to the loop
SendSearchErrIgnored ==
    /\ pc = "send"
    /\ sends' = sends + 1
    /\ bound' = bound
    /\ devices' = VecNew
    /\ pc' = "check"
    /\ event' = "sendfail"
    /\ ref' = RefStart(ref)
    /\ UNCHANGED <<cliVars, noise, ctorVars, timeout, device_count, elapsed, waited, ret, sockbuf,
                   worker, stale, chan, nEvents, calls, got, arrived>>

\* self.send_search()? failed: start returns the error
SendSearchErr ==
    /\ pc = "send"
    /\ sends' = sends + 1
    /\ ret' = [kind |-> "Err", val |-> <<>>]
    /\ timeout' = 0 /\ device_count' = 0 /\ elapsed' = 0
    /\ got' = {} /\ arrived' = {}
    /\ event' = "sendfail"
    /\ pc' = "idle"
    /\ noise' = {}
    /\ UNCHANGED <<cliVars, ref, bound, ctorVars, waited, devices, sockbuf, worker, stale, chan, nEvents, calls>>

\* while condition true: make the channel, spawn the worker, enter recv_timeout
Spawn ==
    /\ pc = "check"
    /\ LoopCond
    /\ worker' = "recv"
    /\ chan' = <<>>
    /\ waited' = 0
    /\ pc' = "wait"
    /\ event' = "none"
    /\ UNCHANGED <<cliVars, noise, ref, bound, ctorVars, timeout, device_count, elapsed, devices, ret, sockbuf,
                   stale, nEvents, calls, sends, got, arrived>>

\* while condition false: Ok(devices); the locals of start end with the call
Return ==
    /\ pc = "check"
    /\ ~LoopCond
    /\ ret' = [kind |-> "Ok", val |-> devices]
    /\ devices' = <<>>
    /\ timeout' = 0 /\ device_count' = 0 /\ elapsed' = 0
    /\ got' = {} /\ arrived' = {}
    /\ event' = "none"
    /\ pc' = "idle"
    /\ ref' = RefReturn(ref)
    /\ noise' = {}
    /\ UNCHANGED <<cliVars, bound, ctorVars, waited, sockbuf, worker, stale, chan, nEvents,
                   calls, sends>>

\* recv_timeout returned Ok: the rest of the loop body; the receiver is dropped
RecvOk ==
    /\ pc = "wait"
    /\ chan # <<>>
    /\ got' = IF Signed(Head(chan).data) THEN got \cup {Head(chan).addr.ip} ELSE got
    /\ devices' = Process(devices, Head(chan))
    /\ event' = Outcome(devices, Head(chan))
    /\ chan' = <<>>
    /\ worker' = "none"
    /\ waited' = 0
    /\ pc' = "check"
    /\ noise' = IF ~ref.valid THEN {}
                ELSE IF Outcome(devices, Head(chan)) \in {"empty", "nosig"}
                THEN noise \cup ({Head(chan).addr.ip} \ InSet(devices))
                ELSE noise \ {Head(chan).addr.ip}
    /\ UNCHANGED <<cliVars, ref, bound, ctorVars, timeout, device_count, elapsed, ret, sockbuf,
                   stale, nEvents, calls, sends, arrived>>

\* recv_timeout without its timeout: a plain recv that never gives up
RecvNeverTimesOut == FALSE /\ UNCHANGED vars

\* recv_timeout returned Err(Timeout): continue; the receiver is dropped, the
\* thread stays in recvfrom
RecvTimedOut ==
    /\ pc = "wait"
    /\ chan = <<>>
    /\ worker = "recv"
    /\ waited = RecvTimeout
    /\ stale' = stale + 1
    /\ worker' = "none"
    /\ waited' = 0
    /\ event' = "timeout"
    /\ pc' = "check"
    /\ UNCHANGED <<cliVars, noise, ref, bound, ctorVars, timeout, device_count, elapsed, devices, ret,
                   sockbuf, chan, nEvents, calls, sends, got, arrived>>

\* recv_timeout's Err(Disconnected) returned to the caller (a `?` on it)
RecvDisconnectedFatal ==
    /\ Disconnected
    /\ worker' = "none"
    /\ waited' = 0
    /\ event' = "disconnected"
    /\ ret' = [kind |-> "Err", val |-> <<>>]
    /\ devices' = <<>>
    /\ timeout' = 0 /\ device_count' = 0 /\ elapsed' = 0
    /\ got' = {} /\ arrived' = {}
    /\ pc' = "idle"
    /\ noise' = {}
    /\ UNCHANGED <<cliVars, ref, bound, ctorVars, sockbuf, stale, chan, nEvents, calls, sends>>

\* recv_timeout returned Err(Disconnected): continue
RecvDisconnected ==
    /\ Disconnected
    /\ worker' = "none"
    /\ waited' = 0
    /\ event' = "disconnected"
    /\ pc' = "check"
    /\ UNCHANGED <<cliVars, noise, ref, bound, ctorVars, timeout, device_count, elapsed, devices, ret,
                   sockbuf, stale, chan, nEvents, calls, sends, got, arrived>>

\* -------------------------------------------------------------- workers
\* The thread closure runs as one step: recvfrom returns, the outcome is
\* forwarded, the thread ends.  Threads are not named: their JoinHandles are
\* dropped at spawn, so the threads of abandoned attempts are interchangeable.

\* the closure with a loop around recvfrom: the thread sends and receives again
WorkerRecvLoop ==
    /\ pc = "wait"
    /\ worker = "recv"
    /\ sockbuf # <<>>
    /\ chan' = Append(chan, RecvFrom(Head(sockbuf)))
    /\ sockbuf' = Tail(sockbuf)
    /\ worker' = "recv"
    /\ UNCHANGED <<cliVars, bound, ctorVars, callVars, allHist, stale, nEvents>>

\* current attempt, recvfrom returned Ok: sender.send succeeds
WorkerRecv ==
    /\ pc = "wait"
    /\ worker = "recv"
    /\ sockbuf # <<>>
    /\ chan' = Append(chan, RecvFrom(Head(sockbuf)))
    /\ sockbuf' = Tail(sockbuf)
    /\ worker' = "sent"
    /\ UNCHANGED <<cliVars, bound, ctorVars, callVars, allHist, stale, nEvents>>

\* current attempt, recvfrom returned Err: the sender is dropped unused
WorkerRecvErr ==
    /\ pc = "wait"
    /\ worker = "recv"
    /\ Quiet
    /\ nEvents < MaxEvents
    /\ nEvents' = nEvents + 1
    /\ worker' = "failed"
    /\ ref' = RefRecvErr(ref, elapsed)
    /\ UNCHANGED <<cliVars, noise, bound, ctorVars, callVars, histVars, sockbuf, stale, chan>>

\* one channel made before the loop and shared by all attempts: the message
\* of an abandoned attempt's thread reaches the coordinator
StaleRecvDelivers ==
    /\ stale > 0
    /\ ~Urgent
    /\ sockbuf # <<>>
    /\ chan' = Append(chan, RecvFrom(Head(sockbuf)))
    /\ sockbuf' = Tail(sockbuf)
    /\ stale' = stale - 1
    /\ UNCHANGED <<cliVars, bound, ctorVars, callVars, allHist, worker, nEvents>>

\* abandoned attempt, recvfrom returned Ok: sender.send fails, the receiver
\* is gone; the datagram is dropped with the thread
StaleRecv ==
    /\ stale > 0
    /\ ~Urgent
    /\ sockbuf # <<>>
    /\ sockbuf' = Tail(sockbuf)
    /\ stale' = stale - 1
    /\ UNCHANGED <<cliVars, bound, ctorVars, callVars, allHist, worker, chan, nEvents>>

\* abandoned attempt, recvfrom returned Err
StaleRecvErr ==
    /\ stale > 0
    /\ Quiet
    /\ nEvents < MaxEvents
    /\ nEvents' = nEvents + 1
    /\ stale' = stale - 1
    /\ UNCHANGED <<cliVars, bound, ctorVars, callVars, allHist, sockbuf, worker, chan>>

Next ==
    \/ \E s \in AddrStrings : New(s)
    \/ SocketNewOk
    \/ SocketNewErr
    \/ SetsockoptOk
    \/ SetsockoptErr
    \/ Drop
    \/ \E d \in Datagrams : Arrive(d)
    \/ Tick
    \/ \E t \in TimeoutArgs, k \in CountArgs : Start(t, k)
    \/ SendSearchOk
    \/ SendSearchErr
    \/ Spawn
    \/ Return
    \/ RecvOk
    \/ RecvTimedOut
    \/ RecvDisconnected
    \/ WorkerRecv
    \/ WorkerRecvErr
    \/ StaleRecv
    \/ StaleRecvErr

Spec == Init /\ [][Next]_vars

\* the scheduler runs the coordinator thread, a blocked recvfrom returns once
\* a datagram is queued, and time passes
Coordinator ==
    \/ SendSearchOk \/ SendSearchErr \/ Spawn \/ Return
    \/ RecvOk \/ RecvTimedOut \/ RecvDisconnected

Delivery == WorkerRecv \/ StaleRecv

FairSpec == Spec /\ WF_vars(Coordinator) /\ WF_vars(Delivery) /\ WF_vars(Tick)

\* ------------------------------------- command-line snapshot, main.rs
\* main.rs holds its own Discover: new() builds the session (unwrap on the
\* socket), start(self, ..) consumes it.  Its steps take no time; time passes
\* only while start is blocked in recvfrom.

CliCountArgs == {<<>>} \cup {Some(k) : k \in 0..MaxCliCount}

\* the while condition of start, main.rs line 57
CliLoopCond == AsSecs(cliElapsed) < cliTimeout /\ count < cliDeviceCount

\* start, main.rs lines 43-51, on the session new() returned
CliStart(t, k) ==
    /\ cliPc = "new"
    /\ cliTimeout' = UnwrapOr(t, DefaultTimeout)
    /\ cliDeviceCount' = UnwrapOr(k, U32Max)
    /\ cliPc' = "send"
    /\ UNCHANGED <<libVars, cliSent, count, cliElapsed, cliBuf, cliGot, cliEvents>>

\* self.send_search(); let mut count = 0; let time = Instant::now()
CliSendSearchOk ==
    /\ cliPc = "send"
    /\ cliSent' = TRUE
    /\ count' = 0
    /\ cliElapsed' = 0
    /\ cliPc' = "check"
    /\ UNCHANGED <<libVars, cliTimeout, cliDeviceCount, cliBuf, cliGot, cliEvents>>

\* sendto failed: let _ = ... drops the error and start goes on
CliSendSearchErr ==
    /\ cliPc = "send"
    /\ cliSent' = FALSE
    /\ count' = 0
    /\ cliElapsed' = 0
    /\ cliPc' = "check"
    /\ UNCHANGED <<libVars, cliTimeout, cliDeviceCount, cliBuf, cliGot, cliEvents>>

\* while condition true: self.socket.recvfrom(1024, 0) is entered
CliEnter ==
    /\ cliPc = "check"
    /\ CliLoopCond
    /\ cliPc' = "recvfrom"
    /\ UNCHANGED <<libVars, cliSent, cliTimeout, cliDeviceCount, count, cliElapsed,
                   cliBuf, cliGot, cliEvents>>

\* while condition false: let _ = self.socket.close()
CliClose ==
    /\ cliPc = "check"
    /\ ~CliLoopCond
    /\ cliPc' = "done"
    /\ UNCHANGED <<libVars, cliSent, cliTimeout, cliDeviceCount, count, cliElapsed,
                   cliBuf, cliGot, cliEvents>>

\* recvfrom returned Ok: lines 58-63
CliRecvOk ==
    /\ cliPc = "recvfrom"
    /\ cliBuf # <<>>
    /\ LET msg == RecvFrom(Head(cliBuf))
       IN  /\ count' = IF Contains(FromUtf8Lossy(msg.data), Sonos) THEN count + 1 ELSE count
           /\ cliGot' = IF Signed(msg.data) THEN cliGot \cup {msg.addr.ip} ELSE cliGot
    /\ cliBuf' = Tail(cliBuf)
    /\ cliPc' = "check"
    /\ UNCHANGED <<libVars, cliSent, cliTimeout, cliDeviceCount, cliElapsed, cliEvents>>

\* recvfrom returned Err: unwrap() panics
CliRecvErr ==
    /\ cliPc = "recvfrom"
    /\ cliBuf = <<>>
    /\ cliEvents < MaxCliEvents
    /\ cliEvents' = cliEvents + 1
    /\ cliPc' = "panicked"
    /\ UNCHANGED <<libVars, cliSent, cliTimeout, cliDeviceCount, count, cliElapsed,
                   cliBuf, cliGot>>

\* a datagram reaches the socket (which has a port once the query has left it);
\* the blocked recvfrom returns it at once
CliArrive(d) ==
    /\ cliPc = "recvfrom"
    /\ cliSent
    /\ cliBuf = <<>>
    /\ cliEvents < MaxCliEvents
    /\ cliEvents' = cliEvents + 1
    /\ cliBuf' = Append(cliBuf, d)
    /\ UNCHANGED <<libVars, cliPc, cliSent, cliTimeout, cliDeviceCount, count,
                   cliElapsed, cliGot>>

\* time passes while start is blocked in recvfrom
CliTick ==
    /\ cliPc = "recvfrom"
    /\ cliBuf = <<>>
    /\ cliElapsed < MaxCliTicks
    /\ cliElapsed' = cliElapsed + 1
    /\ UNCHANGED <<libVars, cliPc, cliSent, cliTimeout, cliDeviceCount, count,
                   cliBuf, cliGot, cliEvents>>

CliNext ==
    \/ \E t \in TimeoutArgs, k \in CliCountArgs : CliStart(t, k)
    \/ CliSendSearchOk
    \/ CliSendSearchErr
    \/ CliEnter
    \/ CliClose
    \/ CliRecvOk
    \/ CliRecvErr
    \/ \E d \in Datagrams : CliArrive(d)
    \/ CliTick

CliSpec == Init /\ [][CliNext]_vars

\* ------------------------------------------------------------ properties
InCall == pc \in {"check", "wait"}
NoDup(v) == \A i, j \in 1..Len(v) : i # j => v[i] # v[j]
Deadline == timeout * TicksPerSec

\* C1: the list of found addresses holds each ip at most once, in every state
\* of the loop and in the returned value, however many signed replies an ip sends.
C1_NoDuplicates == NoDup(devices) /\ NoDup(ret.val)

\* a signed reply from an ip already in the list has just been processed
C1_Witness == pc = "check" /\ event = "dup" /\ devices # <<>> /\ got = InSet(devices)

\* C2: the number of addresses held never exceeds device_count (0 included),
\* and the returned list has at most device_count entries.
C2_SizeBound ==
    /\ [](Len(devices) <= device_count)
    /\ [][pc # "idle" /\ pc' = "idle" => Len(ret'.val) <= device_count]_vars

\* the bound is met while a signed reply from another ip waits on the socket
C2_Witness ==
    /\ pc = "check" /\ device_count = 1 /\ Len(devices) = 1
    /\ sockbuf # <<>> /\ Signed(Head(sockbuf).data) /\ Head(sockbuf).addr.ip # devices[1]

\* C3: every address in the list sent a non-empty datagram with the bytes
\* "Sonos" that recv_timeout handed over during this call; a received datagram
\* without the signature never changes the list.
C3_OnlySigned ==
    /\ [](InSet(devices) \subseteq got)
    /\ [][pc # "idle" /\ pc' = "idle" => InSet(ret'.val) \subseteq got]_vars
    /\ [][pc = "wait" /\ chan # <<>> /\ ~Signed(Head(chan).data) => devices' = devices]_vars

\* a reply without the signature was processed after an address was found
C3_Witness == pc = "check" /\ event = "nosig" /\ Len(devices) = 1

\* C4 as stated: whenever start returns with fewer than device_count
\* addresses, at least `timeout` seconds and less than `timeout` seconds plus
\* one recv_timeout have passed since it began.
C4_Original ==
    [][pc # "idle" /\ pc' = "idle" /\ Len(devices) < device_count
        => elapsed >= Deadline /\ elapsed < Deadline + RecvTimeout]_vars

\* C4: once the query has been sent, a start call that returns with fewer than
\* device_count addresses returns at least `timeout` seconds and less than
\* `timeout` seconds plus 500 ms after it began; one recv_timeout never lasts
\* longer than 500 ms, whether a datagram arrives, none does, or recvfrom fails.
C4_Timing ==
    /\ [][pc = "check" /\ pc' = "idle" /\ Len(devices) < device_count
            => elapsed >= Deadline /\ elapsed < Deadline + RecvTimeout]_vars
    /\ [](pc = "wait" => waited <= RecvTimeout /\ elapsed < Deadline + RecvTimeout)

\* the loop has ended past the deadline (at 1250 ms of a 1 s timeout), the
\* count not reached
C4_Witness ==
    /\ pc = "check" /\ ~LoopCond /\ timeout = 1 /\ elapsed = Deadline + 1
    /\ Len(devices) < device_count

\* C5: when the list has device_count entries the loop spawns no further
\* worker and start returns Ok(devices) at once, before the deadline if need be.
C5_StopAtCount ==
    /\ [](pc = "wait" => Len(devices) < device_count)
    /\ [][pc = "check" /\ Len(devices) >= device_count
            => pc' = "idle" /\ ret' = [kind |-> "Ok", val |-> devices]
               /\ worker' = worker /\ stale' = stale /\ sockbuf' = sockbuf]_vars

\* the insertion that fills the list has just happened, well before the deadline
C5_Witness ==
    /\ pc = "check" /\ event = "added" /\ device_count = 1 /\ Len(devices) = 1
    /\ elapsed < Deadline /\ sockbuf # <<>>

\* C6: a failed send ends the call at once with Err: one sendto was made, no
\* worker was spawned, and no address list is returned.
C6_SendFailureFatal ==
    /\ [](event = "sendfail" => pc = "idle" /\ ret = [kind |-> "Err", val |-> <<>>]
                                 /\ sends = 1 /\ worker = "none")
    /\ [](pc = "send" => sends = 0)
    /\ [][event' = "sendfail" /\ event # "sendfail"
            => pc = "send" /\ stale' = stale /\ worker' = worker /\ sockbuf' = sockbuf]_vars

\* the send of a second start call failed
C6_Witness == event = "sendfail" /\ calls = 2 /\ ret.kind = "Err"

\* C7: once the query is sent, the call can only end by the while condition
\* turning false, and then with Ok; a recv_timeout that ends in Timeout or
\* Disconnected (the worker's recvfrom failed), and a received datagram that is
\* empty or carries no signature, leave the list as it is and lead back to
\* the while condition.
C7_LoopSwallowsFailures ==
    /\ [][InCall /\ pc' = "idle" => pc = "check" /\ ~LoopCond /\ ret'.kind = "Ok"]_vars
    /\ [][pc = "wait" /\ pc' # "wait"
            /\ (chan = <<>> \/ Head(chan).data = <<>> \/ ~Signed(Head(chan).data))
            => pc' = "check" /\ devices' = devices /\ ret' = ret]_vars

\* a worker's recvfrom failed, an address is already held, and the loop goes on
C7_Witness ==
    /\ pc = "check" /\ event = "disconnected" /\ LoopCond /\ devices # <<>>

\* C8 as stated: every start call returns, and a call in which no signed reply
\* was received returns Ok with an empty list.
C8_Original ==
    [][pc # "idle" /\ pc' = "idle" /\ got = {}
        => ret' = [kind |-> "Ok", val |-> <<>>]]_vars

\* C8: every start call returns, whatever arrives and even when recvfrom never
\* returns; a call whose query was sent and that received no signed reply
\* returns Ok with an empty list.
C8_Terminates ==
    /\ (pc # "idle") ~> (pc = "idle")
    /\ [][InCall /\ pc' = "idle" /\ got = {} => ret' = [kind |-> "Ok", val |-> <<>>]]_vars

\* the deadline has passed with nothing received: every attempt of the call
\* timed out and its worker is still blocked in recvfrom
C8_Witness ==
    /\ pc = "check" /\ timeout = 1 /\ elapsed >= Deadline /\ got = {}
    /\ stale = 2 /\ nEvents = 0 /\ calls = 1

\* C9 as stated: one sendto per call, the list starts empty, and an address the
\* earlier call returned is in the later call's list only if a signed reply
\* from it reached the socket during the later call.
C9_Original ==
    /\ [](InCall => sends = 1)
    /\ [][pc = "send" /\ pc' = "check" => devices' = <<>>]_vars
    /\ [](InCall /\ calls >= 2 /\ ret.kind = "Ok"
            => \A ip \in InSet(devices) \cap InSet(ret.val) : ip \in arrived)

\* C9: one sendto per call, the list starts empty, and an address the earlier
\* call returned is in the later call's list only if a signed reply from it was
\* handed to the later call by recv_timeout (the datagram itself may have been
\* queued on the socket since the earlier call).
C9_FreshPerCall ==
    /\ [](InCall => sends = 1)
    /\ [][pc = "send" /\ pc' = "check" => devices' = <<>>]_vars
    /\ [](InCall /\ calls >= 2 /\ ret.kind = "Ok"
            => \A ip \in InSet(devices) \cap InSet(ret.val) : ip \in got)

\* the second call holds an address the first call returned, taken from a
\* datagram that was already queued when the second call began
C9_Witness ==
    /\ InCall /\ calls = 2 /\ ret.kind = "Ok" /\ devices # <<>>
    /\ InSet(devices) \subseteq InSet(ret.val) /\ arrived = {}

\* C10: a constructor call either yields a session or an error, never both: a
\* session exists only when the address parsed, the socket was created and
\* setsockopt succeeded; after a failure nothing can be started; an address
\* that does not parse fails before Socket::new is reached.
C10_AllOrNothing ==
    /\ session \in {"built", "closed"} => newErr = None /\ socketsCreated = 1
    /\ session = "failed" => newErr # None
    /\ newErr # None => session = "failed" /\ pc = "idle" /\ calls = 0 /\ sockbuf = <<>>
    /\ newErr = "InvalidData" => socketsCreated = 0
    /\ newErr = "SocketNew" => socketsCreated = 0

\* setsockopt failed on a socket that had been created: no session
C10_Witness == session = "failed" /\ newErr = "Setsockopt" /\ socketsCreated = 1

\* C11 as stated, for the first call of a session that reaches the loop: when
\* start returns Ok and the reference collector, run on the same datagrams and
\* the same clock, has ended its call too, both return the same addresses;
\* threads left in recvfrom by abandoned attempts make no difference.
C11_Original ==
    [][pc = "check" /\ pc' = "idle" /\ ref.valid /\ ~ref.active
        => ret'.val = ref.devs]_vars

\* C12: a datagram taken from the socket by the thread of an abandoned attempt
\* reaches no channel and changes neither the list nor the returned value; a
\* message enters the channel only from the thread of the current attempt.
C12_StaleDiscarded ==
    /\ [][stale' < stale
            => chan' = chan /\ devices' = devices /\ got' = got /\ ret' = ret]_vars
    /\ [][chan' # chan /\ chan' # <<>>
            => pc = "wait" /\ worker = "recv" /\ worker' = "sent" /\ stale' = stale
               /\ chan' = <<RecvFrom(Head(sockbuf))>>]_vars

\* a signed datagram from ip 1 reached the socket during the call (the
\* reference collector holds ip 1) and is neither queued, nor in the channel,
\* nor was it handed to the coordinator
C12_Witness ==
    /\ pc = "wait" /\ ref.valid /\ ref.devs = <<1>>
    /\ devices = <<>> /\ got = {} /\ sockbuf = <<>> /\ chan = <<>> /\ calls = 1

\* threads spawned by start that have not ended
Outstanding == stale + (IF worker = "recv" THEN 1 ELSE 0)

\* C13: an attempt begins by spawning one thread on a new, empty channel, and
\* a thread is spawned in no other way; every receive from the socket is the one
\* receive of one thread, which then ends; the threads of abandoned attempts
\* grow by one exactly when an attempt is abandoned, so the threads outstanding
\* are those plus the one of the current attempt; a channel never holds more
\* than one message.
C13_OneWorkerOneMessage ==
    /\ [](Len(chan) <= 1)
    /\ [](worker = "recv" => pc = "wait")
    /\ [][pc = "check" /\ pc' = "wait"
            => worker = "none" /\ worker' = "recv" /\ chan' = <<>>
               /\ Outstanding' = Outstanding + 1]_vars
    /\ [][Outstanding' > Outstanding => pc = "check" /\ pc' = "wait"]_vars
    /\ [][stale' > stale
            => stale' = stale + 1 /\ worker = "recv" /\ worker' = "none"
               /\ pc = "wait" /\ pc' = "check" /\ chan = <<>>]_vars
    /\ [][Len(sockbuf') < Len(sockbuf)
            => /\ sockbuf' = Tail(sockbuf)
               /\ Outstanding' = Outstanding - 1
               /\ Len(chan') <= Len(chan) + 1]_vars

\* the threads of two abandoned attempts of the first call are still in
\* recvfrom while the second call waits on its first attempt
C13_Witness == pc = "wait" /\ worker = "recv" /\ stale = 2 /\ calls = 2

\* C14 as stated, for a network that stays silent: every thread spawned by
\* start ends by itself; whenever threads are outstanding, a time comes when
\* none is, unless a datagram has arrived or a recvfrom has failed by then.
C14_Original == (Outstanding > 0) ~> (Outstanding = 0 \/ nEvents > 0)

\* a received message the loop body skips: empty, without the signature, or
\* from an ip already in the list
NoOp(msg) ==
    msg.data = <<>> \/ ~Signed(msg.data) \/ msg.addr.ip \in InSet(devices)

\* C15: a received message that is empty, unsigned or from an ip already held
\* leaves the list and the returned value as they are and leads back to the
\* while condition, which still holds before the deadline; the senders of
\* empty and unsigned messages are in no list, and a signed message from an
\* ip not held is appended whatever that ip sent before.
C15_NoOpReplies ==
    /\ [][pc = "wait" /\ chan # <<>> /\ NoOp(Head(chan))
            => devices' = devices /\ ret' = ret /\ pc' = "check"]_vars
    /\ [](pc = "check" /\ event \in {"empty", "nosig", "dup"} /\ AsSecs(elapsed) < timeout
            => LoopCond)
    /\ [](noise \cap InSet(devices) = {})
    /\ [][pc = "wait" /\ chan # <<>> /\ ~NoOp(Head(chan))
            => devices' = Append(devices, Head(chan).addr.ip)]_vars

\* ip 1 has so far sent only an empty datagram in this call; its signed
\* datagram has now been received and is about to be processed
C15_Witness ==
    /\ pc = "wait" /\ chan # <<>> /\ Signed(Head(chan).data)
    /\ Head(chan).addr.ip = 1 /\ noise = {1} /\ devices = <<>>

\* the steps of the coordinator: idle (Constructed or Completed), send, then
\* the loop (Collecting), back to idle
PcOrder ==
    {<<"idle", "send">>, <<"send", "check">>, <<"send", "idle">>,
     <<"check", "wait">>, <<"wait", "check">>, <<"check", "idle">>}

\* C16: a call runs only on a constructed session and passes from the send to
\* the loop and from the loop to its return, in that order; a worker is spawned
\* only after the one sendto of its call; sendto is called only in the send
\* step, never in the loop; once the session is closed no call is running, no
\* call starts, nothing is sent and no worker is spawned.
C16_StateOrder ==
    /\ [][pc' # pc => <<pc, pc'>> \in PcOrder]_vars
    /\ [](pc # "idle" => session = "built")
    /\ [](calls > 0 => session \in {"built", "closed"})
    /\ [][pc' = "wait" /\ pc # "wait" => sends = 1 /\ bound]_vars
    /\ [][sends' # sends /\ sends' # 0 => pc = "send" /\ sends = 0 /\ sends' = 1]_vars
    /\ [][session = "closed"
            => session' = "closed" /\ pc' = "idle" /\ calls' = calls /\ sends' = sends
               /\ Outstanding' <= Outstanding]_vars

\* two calls have completed, the second with a result, and the session was
\* torn down
C16_Witness ==
    /\ session = "closed" /\ calls = 2 /\ sends = 1 /\ ret.kind = "Ok" /\ ret.val # <<>>

IsPrefix(u, v) == Len(u) <= Len(v) /\ u = SubSeq(v, 1, Len(u))

\* C17: from the send to the return of a call the list only grows at its end:
\* every step keeps the entries held, in their places; an entry is added only
\* when a signed message from an ip not yet handed over in this call is
\* processed, and then that ip becomes the last entry; the call returns the
\* list as it stands.
C17_GrowsInOrder ==
    /\ [][InCall /\ pc' # "idle" => IsPrefix(devices, devices')]_vars
    /\ [][InCall /\ devices' # devices /\ pc' # "idle"
            => /\ pc = "wait" /\ chan # <<>> /\ Signed(Head(chan).data)
               /\ Head(chan).addr.ip \notin got
               /\ devices' = Append(devices, Head(chan).addr.ip)]_vars
    /\ [](InCall => InSet(devices) = got)
    /\ [][InCall /\ pc' = "idle" => ret'.val = devices]_vars

\* ip 2 was found first and ip 1 second: the list is in that order
C17_Witness == pc = "check" /\ event = "added" /\ devices = <<2, 1>>

\* C18 as stated: once Drop has closed the socket, no thread spawned by an
\* earlier start call is in a recvfrom on it.
C18_Original == session = "closed" => Outstanding = 0

CliDeadline == cliTimeout * TicksPerSec

\* C19 as stated: the loop of start in main.rs is never found waiting in one
\* receive 500 ms or more past the deadline, and a failed receive does not
\* abort it.
C19_Original ==
    /\ cliPc = "recvfrom" => cliElapsed < CliDeadline + RecvTimeout
    /\ cliPc # "panicked"

\* C20 as stated: when the loop of start in main.rs stops on its count, at
\* least device_count different ips have sent a signed reply.
C20_Original ==
    cliPc = "check" /\ count >= cliDeviceCount => Cardinality(cliGot) >= cliDeviceCount
====
